---------------------------- MODULE Spec2Model ----------------------------
(***************************************************************************)
(* Water-Level: the fetch -> classify -> reconcile pipeline of src/app.py. *)
(*                                                                         *)
(* Text is modelled as a sequence of character codes, so that str.strip,   *)
(* str.replace, slicing ([:30]), strftime and Python's lexicographic       *)
(* string order are computed and not assumed.  The spreadsheet is a        *)
(* function from worksheet titles to the rows of the worksheet.            *)
(*                                                                         *)
(* Spec and FairSpec are the background cycle with the request handlers;   *)
(* TierSpec runs the status cascade, and PageSpec the page loop of the     *)
(* fetch, on inputs of their own.                                          *)
(***************************************************************************)
EXTENDS Integers, Sequences, FiniteSets, TLC

(***************************************************************************)
(* Bounds of the model.                                                    *)
(***************************************************************************)
\* features the remote service delivers over a run, all fetches together
MaxFeatures == 3

\* the highest level and the highest threshold the status cascade is run on
MaxLevel == 3

\* the full pages the remote dataset fills at most
MaxPages == 2

(***************************************************************************)
(* Text helpers.                                                           *)
(***************************************************************************)
Min(a, b) == IF a <= b THEN a ELSE b

\* Python's str < str: lexicographic order on code points
RECURSIVE StrLess(_, _)
StrLess(a, b) ==
    IF b = <<>> THEN FALSE
    ELSE IF a = <<>> THEN TRUE
    ELSE IF Head(a) # Head(b) THEN Head(a) < Head(b)
    ELSE StrLess(Tail(a), Tail(b))

IsSpace(c) == c \in {9, 10, 11, 12, 13, 32}

RECURSIVE LStrip(_)
LStrip(s) == IF s # <<>> /\ IsSpace(Head(s)) THEN LStrip(Tail(s)) ELSE s

RECURSIVE RStrip(_)
RStrip(s) ==
    IF s # <<>> /\ IsSpace(s[Len(s)]) THEN RStrip(SubSeq(s, 1, Len(s) - 1)) ELSE s

\* raw_name.strip().replace("/", "_").replace(":", "-")
RECURSIVE ReplaceSeparators(_)
ReplaceSeparators(s) ==
    IF s = <<>> THEN <<>>
    ELSE <<IF Head(s) = 47 THEN 95 ELSE IF Head(s) = 58 THEN 45 ELSE Head(s)>>
           \o ReplaceSeparators(Tail(s))

CleanName(raw) == ReplaceSeparators(RStrip(LStrip(raw)))

\* two decimal digits, zero padded (%H, %M, %S)
TwoDigits(n) == <<48 + (n \div 10), 48 + (n % 10)>>

\* datetime.fromtimestamp(edit_date / 1000).strftime('%Y-%m-%d %H:%M:%S'),
\* in UTC, for instants of the first day of the epoch
FormatTime(edit_date) ==
    LET secs == edit_date \div 1000
    IN  <<49, 57, 55, 48, 45, 48, 49, 45, 48, 49, 32>>
          \o TwoDigits((secs \div 3600) % 24) \o <<58>>
          \o TwoDigits((secs \div 60) % 60) \o <<58>>
          \o TwoDigits(secs % 60)

\* the literal "N/A"
NA == <<78, 47, 65>>

\* time_str of a feature; an EditDate that is absent or 0 is falsy
TimeStr(edit_date) == IF edit_date # 0 THEN FormatTime(edit_date) ELSE NA

\* station_name[:30]
SheetTitle(station_name) == SubSeq(station_name, 1, Min(Len(station_name), 30))

\* the titles and header cells the program writes
MasterTitle == <<77, 97, 115, 116, 101, 114, 95, 76, 111, 99, 97, 116, 105, 111, 110, 115>>
MasterHeader == << <<71, 97, 117, 103, 101>>, "Basin", "Lat", "Lon" >>
HistoryHeader == << <<68, 97, 116, 101, 84, 105, 109, 101>>, "Level (m)", "Status" >>


(***************************************************************************)
(* Raw features of the remote service.  A feature is a record              *)
(*   gauge       text, <<>> when absent                                    *)
(*   EditDate    milliseconds since the epoch, 0 when absent               *)
(*   water_level [kind, val]: absent ("none"), a number ("num") or a text  *)
(*               that is no number ("str")                                 *)
(*   alertpull, minorpull, majorpull   thresholds, 0 when absent           *)
(*   basin       label                                                     *)
(*   geometry    <<x, y>>, <<>> when the feature carries none              *)
(* Levels and thresholds are integers (a fixed-point scale of the floats); *)
(* a threshold may be absent, like the level.                              *)
(***************************************************************************)
Num(n) == [kind |-> "num", val |-> n]
NoLevel == [kind |-> "none", val |-> 0]
BadLevel == [kind |-> "str", val |-> 0]

Feature(g, e, w, b, geo) ==
    [gauge |-> g, EditDate |-> e, water_level |-> w, alertpull |-> Num(2),
     minorpull |-> Num(4), majorpull |-> Num(6), basin |-> b, geometry |-> geo]

\* thirty characters shared by the two long gauge names
RECURSIVE Repeat(_, _)
Repeat(c, n) == IF n = 0 THEN <<>> ELSE <<c>> \o Repeat(c, n - 1)

LongPrefix == Repeat(120, 30)

GaugeA == <<65, 47, 49>>
GaugeASpaced == <<32, 65, 95, 49>>
GaugeL1 == LongPrefix \o <<49>>
GaugeL2 == LongPrefix \o <<50>>

\* the features a fetch may return
RemoteRows ==
    { Feature(GaugeA, 1000, Num(1), "Nile", <<10, 20>>),
      Feature(GaugeASpaced, 1500, Num(3), "Nile", <<10, 20>>),
      Feature(GaugeA, 2000, Num(5), "Atbara", <<11, 21>>),
      Feature(GaugeL1, 2000, Num(7), "Nile", <<12, 22>>),
      Feature(GaugeL2, 2000, NoLevel, "Tekeze", <<>>),
      Feature(GaugeA, 0, Num(1), "Nile", <<10, 20>>),
      Feature(GaugeA, 3000, BadLevel, "Nile", <<10, 20>>),
      Feature(<<>>, 3000, Num(1), "Nile", <<10, 20>>) }

Range(q) == { q[i] : i \in 1..Len(q) }

\* the sequences of at most n distinct elements of S
RECURSIVE SeqsUpTo(_, _)
SeqsUpTo(S, n) ==
    IF n = 0 THEN { <<>> }
    ELSE LET shorter == SeqsUpTo(S, n - 1)
         IN  shorter \cup UNION { { Append(q, x) : x \in S \ Range(q) } :
                                    q \in { r \in shorter : Len(r) = n - 1 } }

\* the results a fetch may have, all_features: at most n rows of the remote
\* dataset, each once, in any order
FeatureLists(n) == SeqsUpTo(RemoteRows, n)

(***************************************************************************)
(* RecordNormalizer and StationGrouper: fetch_arcgis_data, lines 96-143.   *)
(***************************************************************************)
\* attr.get(...) or 0: an absent threshold counts as 0
OrZero(v) == IF v.kind = "none" THEN 0 ELSE v.val

\* a cascade that names the two flood statuses the wrong way round
TierLabelsSwapped(level, alert_lvl, minor_lvl, major_lvl) ==
    IF level >= major_lvl /\ major_lvl > 0 THEN "MINOR FLOOD"
    ELSE IF level >= minor_lvl /\ minor_lvl > 0 THEN "MAJOR FLOOD"
    ELSE IF level >= alert_lvl /\ alert_lvl > 0 THEN "ALERT"
    ELSE "Normal"

\* a cascade that lets a threshold of 0 take part
TierUngated(level, alert_lvl, minor_lvl, major_lvl) ==
    IF level >= major_lvl THEN "MAJOR FLOOD"
    ELSE IF level >= minor_lvl THEN "MINOR FLOOD"
    ELSE IF level >= alert_lvl THEN "ALERT"
    ELSE "Normal"

\* the status of a level against the three thresholds
Tier(level, alert_lvl, minor_lvl, major_lvl) ==
    IF level >= major_lvl /\ major_lvl > 0 THEN "MAJOR FLOOD"
    ELSE IF level >= minor_lvl /\ minor_lvl > 0 THEN "MINOR FLOOD"
    ELSE IF level >= alert_lvl /\ alert_lvl > 0 THEN "ALERT"
    ELSE "Normal"

\* float(level) raises ValueError on a text that is no number
NormalizeRaises(item) == item.gauge # <<>> /\ item.water_level.kind = "str"

\* a feature without a gauge yields no record
Skipped(item) == item.gauge = <<>>

\* the record of a feature that is neither skipped nor malformed
Normalize(item) ==
    LET level == IF item.water_level.kind = "none" THEN 0 ELSE item.water_level.val
    IN  [name |-> CleanName(item.gauge),
         basin |-> item.basin,
         lat |-> IF item.geometry = <<>> THEN 0 ELSE item.geometry[2],
         lon |-> IF item.geometry = <<>> THEN 0 ELSE item.geometry[1],
         level |-> level,
         status |-> Tier(level, OrZero(item.alertpull), OrZero(item.minorpull),
                         OrZero(item.majorpull)),
         time |-> TimeStr(item.EditDate),
         timestamp_raw |-> item.EditDate]

\* grouped_data is an insertion-ordered dict: a sequence of [name, records]
GroupNames(g) == { g[i].name : i \in 1..Len(g) }

GroupIndex(g, n) == CHOOSE i \in 1..Len(g) : g[i].name = n

\* grouped_data[clean_name].append(record)
GroupAppend(g, rec) ==
    IF rec.name \in GroupNames(g)
    THEN LET i == GroupIndex(g, rec.name)
         IN  [g EXCEPT ![i].records = Append(@, rec)]
    ELSE Append(g, [name |-> rec.name, records |-> <<rec>>])

RECURSIVE GroupFeatures(_, _)
GroupFeatures(features, g) ==
    IF features = <<>> THEN g
    ELSE GroupFeatures(Tail(features),
                       IF Skipped(Head(features)) THEN g
                       ELSE GroupAppend(g, Normalize(Head(features))))

\* the loop of lines 99-141 raises at the first malformed feature
FetchRaises(features) == \E i \in 1..Len(features) : NormalizeRaises(features[i])

\* the value fetch_arcgis_data returns
Grouped(features) == GroupFeatures(features, <<>>)


(***************************************************************************)
(* ReconciliationEngine: the pure parts of update_google_sheets.           *)
(***************************************************************************)
\* list.sort(key=...) is stable: an element goes after the elements whose
\* key is not greater
RECURSIVE InsertByTimestamp(_, _)
InsertByTimestamp(sorted, rec) ==
    IF sorted = <<>> THEN <<rec>>
    ELSE IF rec.timestamp_raw < Head(sorted).timestamp_raw THEN <<rec>> \o sorted
    ELSE <<Head(sorted)>> \o InsertByTimestamp(Tail(sorted), rec)

\* records.sort(key=lambda x: x['timestamp_raw'] if x['timestamp_raw'] else 0)
RECURSIVE SortByTimestamp(_, _)
SortByTimestamp(records, acc) ==
    IF records = <<>> THEN acc
    ELSE SortByTimestamp(Tail(records), InsertByTimestamp(acc, Head(records)))

\* lines 163-166 sort every station's list in place
SortGroups(g) ==
    [i \in 1..Len(g) |-> [name |-> g[i].name,
                          records |-> SortByTimestamp(g[i].records, <<>>)]]

RECURSIVE InsertByName(_, _)
InsertByName(sorted, n) ==
    IF sorted = <<>> THEN <<n>>
    ELSE IF StrLess(n, Head(sorted)) THEN <<n>> \o sorted
    ELSE <<Head(sorted)>> \o InsertByName(Tail(sorted), n)

\* sorted(grouped_data.keys())
RECURSIVE SortedKeys(_, _)
SortedKeys(g, acc) ==
    IF g = <<>> THEN acc
    ELSE SortedKeys(Tail(g), InsertByName(acc, Head(g).name))

\* records[-1] of a station's list
Latest(g, n) ==
    LET records == g[GroupIndex(g, n)].records
    IN  records[Len(records)]

MasterRow(latest) == <<latest.name, latest.basin, latest.lat, latest.lon>>

\* master_rows, lines 160-168, of a batch whose lists are sorted
MasterRows(g) ==
    LET keys == SortedKeys(g, <<>>)
    IN  <<MasterHeader>> \o [i \in 1..Len(keys) |-> MasterRow(Latest(g, keys[i]))]

\* ws.col_values(1)
ColValues(rows) == { rows[i][1] : i \in 1..Len(rows) }

HistoryRow(record) == <<record.time, record.level, record.status>>

\* lines 191-196: the rows of the records whose time is not in existing_dates
RECURSIVE FilterNew(_, _)
FilterNew(records, existing_dates) ==
    IF records = <<>> THEN <<>>
    ELSE (IF Head(records).time \notin existing_dates
          THEN <<HistoryRow(Head(records))>> ELSE <<>>)
         \o FilterNew(Tail(records), existing_dates)

RECURSIVE InsertByTime(_, _)
InsertByTime(sorted, row) ==
    IF sorted = <<>> THEN <<row>>
    ELSE IF StrLess(row[1], Head(sorted)[1]) THEN <<row>> \o sorted
    ELSE <<Head(sorted)>> \o InsertByTime(Tail(sorted), row)

\* rows_to_add.sort(key=lambda x: x[0])
RECURSIVE SortRows(_, _)
SortRows(rows, acc) ==
    IF rows = <<>> THEN acc
    ELSE SortRows(Tail(rows), InsertByTime(acc, Head(rows)))

\* rows_to_add of one station, as handed to ws.append_rows
RowsToAdd(records, existing_dates) == SortRows(FilterNew(records, existing_dates), <<>>)


(***************************************************************************)
(* State.                                                                  *)
(*   sheets       the spreadsheet: worksheet title -> rows                 *)
(*   pc           the place of the background thread in background_manager *)
(*                and update_google_sheets                                 *)
(*   first_run    background_manager's flag                                *)
(*   full_history the argument of the current cycle's fetch                *)
(*   data         grouped_data of the current cycle                        *)
(*   idx          the station the loop of line 175 is at                   *)
(*   rows_to_add  rows_to_add of that station                              *)
(*   active       the threads inside update_google_sheets                  *)
(*   fetched      the features the fetches have delivered so far           *)
(* History variables, read by the properties only:                         *)
(*   snap         the spreadsheet when the current cycle started           *)
(*   dir_ts       per Master_Locations entry, the timestamp_raw of the     *)
(*                record it was written from                               *)
(*   prev         the batch of the reconciliation the previous cycle       *)
(*                completed, <<>> if it completed none                     *)
(*   same         the current cycle fetched exactly prev                   *)
(*   raised_at    the place of the last exception of the current cycle,    *)
(*                "" if there was none                                     *)
(* The pure parts of the fetch are run on inputs of their own:             *)
(*   probe        the inputs and the results of such a run, <<>> otherwise *)
(***************************************************************************)
VARIABLES sheets, pc, first_run, full_history, data, idx, rows_to_add,
          active, fetched, snap, dir_ts, prev, same, raised_at, probe

vars == <<sheets, pc, first_run, full_history, data, idx, rows_to_add,
          active, fetched, snap, dir_ts, prev, same, raised_at, probe>>

locals == <<data, idx, rows_to_add>>
history == <<snap, dir_ts, prev, same, raised_at>>

\* the process before the background thread has run
Started ==
    /\ sheets = <<>>
    /\ pc = "loop"
    /\ first_run = TRUE
    /\ full_history = TRUE
    /\ data = <<>>
    /\ idx = 0
    /\ rows_to_add = <<>>
    /\ active = {}
    /\ fetched = 0
    /\ snap = <<>>
    /\ dir_ts = <<>>
    /\ prev = <<>>
    /\ same = FALSE
    /\ raised_at = ""

Init == Started /\ probe = <<>>

\* the spreadsheet with one worksheet added or replaced
WithSheet(sh, title, rows) ==
    [t \in DOMAIN sh \cup {title} |-> IF t = title THEN rows ELSE sh[t]]

\* the places where the thread is inside a call of the spreadsheet API that
\* raises when it fails
StoreCalls ==
    {"open", "master_get", "master_add", "master_hdr", "master_clear",
     "master_update", "st_get", "st_add", "st_hdr", "st_append"}

(***************************************************************************)
(* background_manager, lines 209-232.                                      *)
(***************************************************************************)
\* lines 211-213, 220-225: the fetch of a cycle and what follows it
Fetch ==
    /\ pc = "loop"
    /\ \E features \in FeatureLists(MaxFeatures - fetched) :
          /\ fetched' = fetched + Len(features)
          /\ full_history' = first_run
          /\ snap' = sheets
          /\ IF FetchRaises(features)
             THEN /\ pc' = "except"
                  /\ data' = <<>>
                  /\ same' = FALSE
                  /\ raised_at' = "fetch"
             ELSE /\ data' = Grouped(features)
                  /\ same' = (prev # <<>> /\ Grouped(features) = prev)
                  /\ raised_at' = ""
                  /\ pc' = IF first_run \/ Grouped(features) # <<>>
                           THEN "call" ELSE "sleep"
    /\ UNCHANGED <<sheets, first_run, idx, rows_to_add, active, dir_ts, prev, probe>>

\* lines 147-148: update_google_sheets is entered; an empty batch returns
EnterUpdate ==
    /\ pc = "call"
    /\ IF data = <<>>
       THEN pc' = "returned" /\ active' = active
       ELSE pc' = "open" /\ active' = active \cup {"background"}
    /\ UNCHANGED <<sheets, first_run, full_history, locals, fetched, history, probe>>

\* lines 215-216, 223: update_google_sheets has returned
AfterUpdate ==
    /\ pc = "returned"
    /\ first_run' = IF full_history THEN FALSE ELSE first_run
    /\ pc' = "sleep"
    /\ UNCHANGED <<sheets, full_history, locals, active, fetched, history, probe>>

\* an except clause that ends Bootstrapping
HandleExceptionEndsBootstrap ==
    /\ pc = "except"
    /\ pc' = "sleep"
    /\ first_run' = FALSE
    /\ UNCHANGED <<sheets, full_history, locals, active, fetched, history, probe>>

\* an except clause that leaves the loop
HandleExceptionLeavesLoop ==
    /\ pc = "except"
    /\ pc' = "stopped"
    /\ UNCHANGED <<sheets, first_run, full_history, locals, active, fetched, history, probe>>

\* lines 227-228: the exception of the cycle is caught and printed
HandleException ==
    /\ pc = "except"
    /\ pc' = "sleep"
    /\ UNCHANGED <<sheets, first_run, full_history, locals, active, fetched, history, probe>>

\* lines 231-232 and back to line 209
Sleep ==
    /\ pc = "sleep"
    /\ pc' = "loop"
    /\ data' = <<>>
    /\ idx' = 0
    /\ rows_to_add' = <<>>
    /\ snap' = sheets
    /\ same' = FALSE
    /\ raised_at' = ""
    /\ UNCHANGED <<sheets, first_run, full_history, active, fetched, dir_ts, prev, probe>>

(***************************************************************************)
(* update_google_sheets, lines 150-203, one action per spreadsheet call.   *)
(***************************************************************************)
\* lines 150-151
OpenSpreadsheet ==
    /\ pc = "open"
    /\ pc' = "master_get"
    /\ UNCHANGED <<sheets, first_run, full_history, locals, active, fetched, history, probe>>

\* lines 154-156: spreadsheet.worksheet("Master_Locations")
MasterGet ==
    /\ pc = "master_get"
    /\ pc' = IF MasterTitle \in DOMAIN sheets THEN "master_clear" ELSE "master_add"
    /\ UNCHANGED <<sheets, first_run, full_history, locals, active, fetched, history, probe>>

\* line 157: spreadsheet.add_worksheet
MasterAdd ==
    /\ pc = "master_add"
    /\ sheets' = WithSheet(sheets, MasterTitle, <<>>)
    /\ pc' = "master_hdr"
    /\ UNCHANGED <<first_run, full_history, locals, active, fetched, history, probe>>

\* line 158
MasterHeaderRow ==
    /\ pc = "master_hdr"
    /\ sheets' = [sheets EXCEPT ![MasterTitle] = Append(@, MasterHeader)]
    /\ pc' = "master_clear"
    /\ UNCHANGED <<first_run, full_history, locals, active, fetched, history, probe>>

\* lines 160-170: the lists are sorted in place, then master.clear()
MasterClear ==
    /\ pc = "master_clear"
    /\ data' = SortGroups(data)
    /\ sheets' = [sheets EXCEPT ![MasterTitle] = <<>>]
    /\ pc' = "master_update"
    /\ UNCHANGED <<first_run, full_history, idx, rows_to_add, active, fetched, history, probe>>

\* line 171
MasterUpdate ==
    /\ pc = "master_update"
    /\ sheets' = [sheets EXCEPT ![MasterTitle] = MasterRows(data)]
    /\ dir_ts' = [n \in GroupNames(data) |-> Latest(data, n).timestamp_raw]
    /\ idx' = 1
    /\ pc' = "st_get"
    /\ UNCHANGED <<first_run, full_history, data, rows_to_add, active, fetched,
                   snap, prev, same, raised_at, probe>>

\* lines 175-180: spreadsheet.worksheet(s_title), and the return after the
\* last station
StationGet ==
    /\ pc = "st_get"
    /\ IF idx > Len(data)
       THEN /\ pc' = "returned"
            /\ active' = active \ {"background"}
            /\ prev' = data
       ELSE /\ pc' = IF SheetTitle(data[idx].name) \in DOMAIN sheets
                     THEN "st_read" ELSE "st_add"
            /\ UNCHANGED <<active, prev>>
    /\ UNCHANGED <<sheets, first_run, full_history, locals, fetched, snap, dir_ts,
                   same, raised_at, probe>>

\* line 181: spreadsheet.add_worksheet
StationAdd ==
    /\ pc = "st_add"
    /\ sheets' = WithSheet(sheets, SheetTitle(data[idx].name), <<>>)
    /\ pc' = "st_hdr"
    /\ UNCHANGED <<first_run, full_history, locals, active, fetched, history, probe>>

\* line 182
StationHeaderRow ==
    /\ pc = "st_hdr"
    /\ sheets' = [sheets EXCEPT ![SheetTitle(data[idx].name)] = Append(@, HistoryHeader)]
    /\ pc' = "st_read"
    /\ UNCHANGED <<first_run, full_history, locals, active, fetched, history, probe>>

\* lines 191-199 once existing_dates is known
Filtered(existing_dates) ==
    /\ rows_to_add' = RowsToAdd(data[idx].records, existing_dates)
    /\ IF rows_to_add' # <<>>
       THEN pc' = "st_append" /\ idx' = idx
       ELSE pc' = "st_get" /\ idx' = idx + 1

\* lines 186-187: ws.col_values(1) answers
StationRead ==
    /\ pc = "st_read"
    /\ Filtered(ColValues(sheets[SheetTitle(data[idx].name)]))
    /\ UNCHANGED <<sheets, first_run, full_history, data, active, fetched, history, probe>>

\* lines 188-189: ws.col_values(1) raises
StationReadFails ==
    /\ pc = "st_read"
    /\ Filtered({})
    /\ UNCHANGED <<sheets, first_run, full_history, data, active, fetched, history, probe>>

\* a write that replaces the rows of the worksheet by the new rows
OverwriteRows(rows, new_rows) == new_rows

\* ws.append_rows(rows_to_add): the rows go below the rows of the worksheet
AppendRows(rows, new_rows) == rows \o new_rows

\* line 202
StationAppend ==
    /\ pc = "st_append"
    /\ sheets' = [sheets EXCEPT ![SheetTitle(data[idx].name)] = AppendRows(@, rows_to_add)]
    /\ idx' = idx + 1
    /\ pc' = "st_get"
    /\ UNCHANGED <<first_run, full_history, data, rows_to_add, active, fetched, history, probe>>

\* a spreadsheet call outside a try of update_google_sheets raises: the
\* exception leaves the function and reaches line 227
StoreRaises ==
    /\ pc \in StoreCalls
    /\ pc = "st_get" => idx <= Len(data)
    /\ pc' = "except"
    /\ raised_at' = pc
    /\ active' = active \ {"background"}
    /\ prev' = <<>>
    /\ UNCHANGED <<sheets, first_run, full_history, locals, fetched, snap, dir_ts, same, probe>>

(***************************************************************************)
(* The request handlers, lines 244-302.  They run on the server's threads, *)
(* at any moment of the background cycle.                                  *)
(***************************************************************************)
\* a handler that hands what it fetched to update_google_sheets
DataApiReconciles ==
    /\ active' = active \cup {"request"}
    /\ UNCHANGED <<sheets, pc, first_run, full_history, locals, fetched, history, probe>>

\* lines 249-256: a fetch of its own, then the newest record per station;
\* no call of update_google_sheets and none of the spreadsheet
DataApi ==
    /\ active' = active
    /\ UNCHANGED <<sheets, pc, first_run, full_history, locals, fetched, history, probe>>

\* a handler that adds the worksheet it does not find
HistoryApiCreates ==
    /\ SheetTitle(CleanName(GaugeA)) \notin DOMAIN sheets
    /\ sheets' = WithSheet(sheets, SheetTitle(CleanName(GaugeA)), <<>>)
    /\ active' = active
    /\ UNCHANGED <<pc, first_run, full_history, locals, fetched, history, probe>>

\* lines 260-281: reads one worksheet
HistoryApi ==
    /\ sheets' = sheets
    /\ active' = active
    /\ UNCHANGED <<pc, first_run, full_history, locals, fetched, history, probe>>

\* lines 285-302: reads one worksheet
DownloadData ==
    /\ sheets' = sheets
    /\ active' = active
    /\ UNCHANGED <<pc, first_run, full_history, locals, fetched, history, probe>>

Next ==
    \/ Fetch
    \/ EnterUpdate
    \/ AfterUpdate
    \/ HandleException
    \/ Sleep
    \/ OpenSpreadsheet
    \/ MasterGet
    \/ MasterAdd
    \/ MasterHeaderRow
    \/ MasterClear
    \/ MasterUpdate
    \/ StationGet
    \/ StationAdd
    \/ StationHeaderRow
    \/ StationRead
    \/ StationReadFails
    \/ StationAppend
    \/ StoreRaises
    \/ DataApi
    \/ HistoryApi
    \/ DownloadData

Spec == Init /\ [][Next]_vars

\* the background thread is scheduled and each call it makes returns or
\* raises: the handlers change no variable, so the fairness is the thread's
FairSpec == Spec /\ WF_vars(Next)

(***************************************************************************)
(* The status cascade of lines 122-129 on inputs of its own: two levels    *)
(* against one triple of thresholds.                                       *)
(***************************************************************************)
Levels == -1..MaxLevel

Thresholds == { NoLevel } \cup { Num(n) : n \in -1..MaxLevel }

TierInit ==
    /\ Started
    /\ probe \in [level : Levels, higher : Levels, alertpull : Thresholds,
                  minorpull : Thresholds, majorpull : Thresholds, status : { <<>> }]

\* lines 122-129 for a level of the probe
StatusOf(level) ==
    Tier(level, OrZero(probe.alertpull), OrZero(probe.minorpull), OrZero(probe.majorpull))

Classify ==
    /\ probe.status = <<>>
    /\ probe' = [probe EXCEPT !.status = <<StatusOf(probe.level), StatusOf(probe.higher)>>]
    /\ UNCHANGED <<sheets, pc, first_run, full_history, locals, active, fetched, history>>

TierNext == Classify

TierSpec == TierInit /\ [][TierNext]_vars

(***************************************************************************)
(* The page loop of fetch_arcgis_data, lines 41-94, on a remote dataset of *)
(* its own, and what the cycle does with its result.  The dataset does not *)
(* change during the fetch and the service delivers resultRecordCount rows *)
(* per page while rows remain.  Every row has a gauge and a numeric level. *)
(***************************************************************************)
\* line 43
record_count == 1000

\* an order that leaves the rows of one EditDate in any order
OrderByEditDate == <<"EditDate">>

\* line 50
OrderByFields == <<"EditDate", "OBJECTID">>

\* line 62, the moment 24 hours before the fetch
ts_milliseconds == 250

\* lines 56, 63
Where(full) == IF full THEN "1=1" ELSE "EditDate > ts"

Matches(row, where) == where = "1=1" \/ row.EditDate > ts_milliseconds

\* the row of rank r of the layer in (EditDate, OBJECTID) order: ranks 2k and
\* 2k+1 share their EditDate, so two rows tie across every page boundary
RemoteRow(r) == [OBJECTID |-> r, EditDate |-> (r \div 2) + 1, gauge |-> GaugeA]

\* the sizes of the layer: around every page boundary
RemoteSizes ==
    { n \in 0..(MaxPages * record_count + 1) :
         \E k \in 0..MaxPages : n \in { k * record_count - 1, k * record_count,
                                        k * record_count + 1 } }

\* the rows the where clause selects, in (EditDate, OBJECTID) order
Selected(n, where) ==
    LET skip == Cardinality({ r \in 1..n : ~Matches(RemoteRow(r), where) })
    IN  [i \in 1..(n - skip) |-> RemoteRow(skip + i)]

\* the ways the service may order rows that tie on the orderByFields
TieBreaks(order_by) ==
    IF "OBJECTID" \in Range(order_by) THEN { "asc" } ELSE { "asc", "desc" }

\* the selected rows as the service orders them for one request
Served(rows, tie) ==
    [i \in 1..Len(rows) |->
        IF tie = "asc" THEN rows[i]
        ELSE IF i < Len(rows) /\ rows[i + 1].EditDate = rows[i].EditDate THEN rows[i + 1]
        ELSE IF i > 1 /\ rows[i - 1].EditDate = rows[i].EditDate THEN rows[i - 1]
        ELSE rows[i]]

\* the features of the page at resultOffset offset
Response(rows, offset, tie) ==
    SubSeq(Served(rows, tie), offset + 1, Min(offset + record_count, Len(rows)))

PageInit ==
    /\ Started
    /\ probe \in { [n |-> n, full_history |-> f, offset |-> 0, all_features |-> <<>>,
                    requests |-> <<>>, outcome |-> "none", pc |-> "request",
                    batch |-> <<>>] : n \in RemoteSizes, f \in BOOLEAN }

\* what the loop does with the features of a page, lines 75-87
PageKind(features) ==
    IF features = <<>> THEN "empty"
    ELSE IF Len(features) < record_count THEN "short"
    ELSE "full"

\* lines 66-87: the request is answered with status 200
RequestPage ==
    /\ probe.pc = "request"
    /\ \E tie \in TieBreaks(OrderByFields) :
          LET features == Response(Selected(probe.n, Where(probe.full_history)),
                                   probe.offset, tie)
          IN  probe' = [probe EXCEPT
                            !.requests = Append(@, probe.offset),
                            !.all_features = @ \o features,
                            !.outcome = PageKind(features),
                            !.offset = IF PageKind(features) = "full"
                                       THEN @ + record_count ELSE @,
                            !.pc = IF PageKind(features) = "full"
                                   THEN "request" ELSE "fetched"]
    /\ UNCHANGED <<sheets, pc, first_run, full_history, locals, active, fetched, history>>

\* lines 70-72: the status of the answer is not 200
RequestRefused ==
    /\ probe.pc = "request"
    /\ probe' = [probe EXCEPT !.requests = Append(@, probe.offset),
                              !.outcome = "status", !.pc = "fetched"]
    /\ UNCHANGED <<sheets, pc, first_run, full_history, locals, active, fetched, history>>

\* a request whose exception leaves fetch_arcgis_data
RequestRaisesAborts ==
    /\ probe.pc = "request"
    /\ probe' = [probe EXCEPT !.requests = Append(@, probe.offset),
                              !.outcome = "error", !.pc = "except"]
    /\ UNCHANGED <<sheets, pc, first_run, full_history, locals, active, fetched, history>>

\* lines 68, 74, 90-92: requests.get or r.json() raises
RequestRaises ==
    /\ probe.pc = "request"
    /\ probe' = [probe EXCEPT !.requests = Append(@, probe.offset),
                              !.outcome = "error", !.pc = "fetched"]
    /\ UNCHANGED <<sheets, pc, first_run, full_history, locals, active, fetched, history>>

\* lines 94-143 and 211-222: the rows are grouped and returned, and the cycle
\* calls update_google_sheets in Full mode or when there is data
ReturnToCycle ==
    /\ probe.pc = "fetched"
    /\ probe' = [probe EXCEPT !.batch = probe.all_features,
                              !.pc = IF probe.full_history \/ probe.all_features # <<>>
                                     THEN "update" ELSE "sleep"]
    /\ UNCHANGED <<sheets, pc, first_run, full_history, locals, active, fetched, history>>

PageNext ==
    \/ RequestPage
    \/ RequestRefused
    \/ RequestRaises
    \/ ReturnToCycle

PageSpec == PageInit /\ [][PageNext]_vars

(***************************************************************************)
(* Notions the properties use.                                             *)
(***************************************************************************)
IsPrefix(p, q) == Len(p) <= Len(q) /\ SubSeq(q, 1, Len(p)) = p

\* the worksheets that hold a station's history
HistoryTitles(sh) == DOMAIN sh \ {MasterTitle}

\* the positions of the rows of a history worksheet that are readings
ReadingRows(rows) == { i \in 1..Len(rows) : rows[i][1] # HistoryHeader[1] }

\* the Master_Locations rows of a spreadsheet
MasterOf(sh) == IF MasterTitle \in DOMAIN sh THEN sh[MasterTitle] ELSE <<>>

\* the Master_Locations entries of a station
EntriesOf(sh, n) ==
    { MasterOf(sh)[i] : i \in { j \in 1..Len(MasterOf(sh)) : MasterOf(sh)[j][1] = n } }

\* the creation of, or the append to, the history of station idx raised in
\* the cycle that ended
StationWriteRaised == pc = "sleep" /\ raised_at \in {"st_add", "st_hdr", "st_append"}

\* every record of station j of the batch has its time in the station's history
Processed(j) ==
    /\ SheetTitle(data[j].name) \in DOMAIN sheets
    /\ \A k \in 1..Len(data[j].records) :
          data[j].records[k].time \in ColValues(sheets[SheetTitle(data[j].name)])

(***************************************************************************)
(* Properties.                                                             *)
(***************************************************************************)
\* C1: no station history worksheet holds two rows with the same DateTime.
NoDuplicateDateTime ==
    \A t \in HistoryTitles(sheets) :
       \A i, j \in 1..Len(sheets[t]) : i # j => sheets[t][i][1] # sheets[t][j][1]

\* C2: when a reconciliation has completed, the DateTime values of the
\* reading rows of every station history are in non-decreasing order.
HistoryOrdered ==
    pc = "returned" =>
       \A t \in HistoryTitles(sheets) :
          \A i, j \in ReadingRows(sheets[t]) :
             i < j => ~StrLess(sheets[t][j][1], sheets[t][i][1])

\* C3: a reconciliation of the batch the previous reconciliation completed
\* with leaves the spreadsheet as that one left it.
SameBatchTwiceChangesNothing == (pc = "returned" /\ same) => sheets = snap

\* C4: in every state of a cycle, completed or failed part-way, every
\* station history of the start of the cycle is a prefix of the history now.
HistoryAppendOnly ==
    \A t \in HistoryTitles(snap) :
       t \in DOMAIN sheets /\ IsPrefix(snap[t], sheets[t])

\* C4, witness: a cycle that raised part-way after it had appended rows to a
\* history that held readings already.
AppendedThenRaised ==
    /\ StationWriteRaised
    /\ \E t \in HistoryTitles(snap) : Len(snap[t]) >= 2 /\ Len(sheets[t]) > Len(snap[t])

\* C5: when the spreadsheet write made for one station raised, every other
\* station of the batch has been processed in that cycle.
StationFailureIsolated ==
    StationWriteRaised => \A j \in 1..Len(data) : j # idx => Processed(j)

\* C6: the write of Master_Locations leaves the entry of a station unchanged
\* when the newest reading of the station in the batch is older than the
\* reading the entry was written from.
DirectoryNotRegressed ==
    [][(pc = "master_update" /\ pc' = "st_get") =>
          \A n \in GroupNames(data) \cap DOMAIN dir_ts :
             (EntriesOf(snap, n) # {} /\ Latest(data, n).timestamp_raw < dir_ts[n])
                => EntriesOf(sheets', n) = EntriesOf(snap, n)]_vars

\* C7: after a completed reconciliation a station that had an entry in
\* Master_Locations and has no reading in the batch has the same entry.
DirectoryKeepsAbsentStations ==
    (pc = "returned" /\ data # <<>>) =>
       \A i \in 1..Len(MasterOf(snap)) :
          MasterOf(snap)[i][1] \notin GroupNames(data)
             => MasterOf(snap)[i] \in EntriesOf(sheets, MasterOf(snap)[i][1])

\* C8, as stated: when a cycle has ended, whether it completed or raised, the
\* scheduler is Steady.
SteadyAfterAnyCycle == pc = "sleep" => first_run = FALSE

\* C8, amended: a cycle is Full exactly while first_run holds; a cycle that
\* completes ends Bootstrapping, a cycle that raises leaves the scheduler as
\* it was, and Steady is never left.
SteadyOnceACycleCompletes ==
    [][/\ (pc = "loop" /\ pc' # "loop") => full_history' = first_run
       /\ (pc = "returned" /\ pc' = "sleep") => first_run' = FALSE
       /\ (pc = "except" /\ pc' = "sleep") => first_run' = first_run
       /\ first_run = FALSE => first_run' = FALSE]_vars

\* C8, witness: a second Full cycle, started after a cycle that wrote to the
\* spreadsheet and raised.
FullCycleRepeated ==
    pc = "call" /\ first_run /\ full_history /\ snap # <<>>

\* C9: the loop never stops: the step after a caught exception is the sleep,
\* the step after the sleep is the top of the loop, and both are reached
\* again and again.
LoopNeverStops ==
    /\ [][(pc = "except" => pc' = "sleep") /\ (pc = "sleep" => pc' = "loop")]_vars
    /\ []<>(pc = "sleep")
    /\ []<>(pc = "loop")

\* C9, witness: the loop is at its top again after a cycle whose
\* reconciliation raised part-way.
LoopRestartedAfterFailure ==
    pc = "loop" /\ first_run /\ HistoryTitles(sheets) # {}

\* C10: at most one thread is inside update_google_sheets.
AtMostOneReconciliation == Cardinality(active) <= 1

\* C10, witness: the background thread is inside update_google_sheets,
\* appending to a station history, where any request handler may run.
ReconciliationInProgress ==
    active = {"background"} /\ pc = "st_append" /\ ENABLED DataApi


\* C11: a step of data_api, history_api or download_data, taken at any
\* moment of the background cycle, leaves every worksheet as it was, and the
\* spreadsheet changes only in a step of the background cycle
QueriesLeaveStoreUnchanged ==
    [][ /\ (DataApi \/ HistoryApi \/ DownloadData) => sheets' = sheets
        /\ sheets' # sheets => pc' # pc ]_vars

\* the handlers can run between two writes of a reconciliation
QueryBetweenWrites ==
    /\ pc = "st_append"
    /\ sheets # snap
    /\ ENABLED HistoryApi
    /\ ENABLED DownloadData

(***************************************************************************)
(* The status cascade.                                                     *)
(***************************************************************************)
\* the order Normal < ALERT < MINOR FLOOD < MAJOR FLOOD
Rank(status) ==
    CASE status = "Normal" -> 0
      [] status = "ALERT" -> 1
      [] status = "MINOR FLOOD" -> 2
      [] status = "MAJOR FLOOD" -> 3

\* C12: for thresholds 0 < alert < minor < major a higher level never gets a
\* lower status, and with all three thresholds 0 the status is Normal at
\* every level
TierMonotone ==
    probe.status # <<>> =>
        LET a == OrZero(probe.alertpull)
            mi == OrZero(probe.minorpull)
            ma == OrZero(probe.majorpull)
        IN  /\ (0 < a /\ a < mi /\ mi < ma /\ probe.level <= probe.higher)
                => Rank(probe.status[1]) <= Rank(probe.status[2])
            /\ (a = 0 /\ mi = 0 /\ ma = 0) => probe.status[1] = "Normal"

\* two levels of one station, the lower one Normal and the higher one MAJOR
\* FLOOD, under ordered thresholds
TierRises ==
    /\ probe.status = <<"Normal", "MAJOR FLOOD">>
    /\ 0 < OrZero(probe.alertpull)
    /\ OrZero(probe.alertpull) < OrZero(probe.minorpull)
    /\ OrZero(probe.minorpull) < OrZero(probe.majorpull)
    /\ probe.level < probe.higher

\* C13: whatever the thresholds, ordered or not, absent or 0: the status is
\* MAJOR FLOOD exactly when major > 0 and level >= major; otherwise MINOR
\* FLOOD exactly when minor > 0 and level >= minor; otherwise ALERT exactly
\* when alert > 0 and level >= alert; otherwise Normal
TierDecision ==
    probe.status # <<>> =>
        LET major == OrZero(probe.majorpull) > 0 /\ probe.level >= OrZero(probe.majorpull)
            minor == OrZero(probe.minorpull) > 0 /\ probe.level >= OrZero(probe.minorpull)
            alert == OrZero(probe.alertpull) > 0 /\ probe.level >= OrZero(probe.alertpull)
            status == probe.status[1]
        IN  /\ status = "MAJOR FLOOD" <=> major
            /\ status = "MINOR FLOOD" <=> (~major /\ minor)
            /\ status = "ALERT" <=> (~major /\ ~minor /\ alert)
            /\ status = "Normal" <=> (~major /\ ~minor /\ ~alert)

\* thresholds out of order and one absent: the level is below the alert
\* threshold and the status is MINOR FLOOD
TierUnorderedThresholds ==
    /\ probe.status # <<>>
    /\ probe.status[1] = "MINOR FLOOD"
    /\ probe.majorpull = NoLevel
    /\ probe.level < OrZero(probe.alertpull)

(***************************************************************************)
(* The page loop.                                                          *)
(***************************************************************************)
\* C14: the pages are asked at offsets 0, 1000, 2000, ...; the loop goes on
\* only after a full page and stops at the first short or empty page,
\* refused request or request error; the rows collected are a prefix of the
\* selected dataset in (EditDate, OBJECTID) order, no row twice and none
\* skipped, and the whole selected dataset when no request failed
PagesArePrefix ==
    LET rows == Selected(probe.n, Where(probe.full_history))
    IN  /\ \A i \in 1..Len(probe.requests) : probe.requests[i] = (i - 1) * record_count
        /\ probe.pc = "request" <=> probe.outcome \in { "none", "full" }
        /\ IsPrefix(probe.all_features, rows)
        /\ Cardinality({ probe.all_features[i].OBJECTID : i \in 1..Len(probe.all_features) })
              = Len(probe.all_features)
        /\ probe.outcome \in { "short", "empty" } => probe.all_features = rows

\* a dataset of more than two pages was fetched whole
ThreePagesFetched ==
    /\ probe.pc = "fetched"
    /\ probe.outcome = "short"
    /\ Len(probe.requests) >= 3
    /\ Len(probe.all_features) > 2 * record_count

\* C15: after a refused or raising page request no further request is made,
\* the rows of the pages before it are all kept, and the cycle goes on to
\* update_google_sheets with them
FailedPageKeepsEarlierRows ==
    probe.outcome \in { "status", "error" } =>
        LET rows == Selected(probe.n, Where(probe.full_history))
            pages == Len(probe.requests) - 1
        IN  /\ probe.pc \in { "fetched", "update", "sleep" }
            /\ probe.requests[Len(probe.requests)] = pages * record_count
            /\ probe.all_features = SubSeq(rows, 1, pages * record_count)
            /\ probe.pc = "sleep" => probe.all_features = <<>>
            /\ probe.pc = "update" => probe.batch = probe.all_features

\* the request of the second page raised and the cycle reconciles the first
\* page
FirstPageReconciled ==
    /\ probe.pc = "update"
    /\ probe.outcome = "error"
    /\ Len(probe.batch) = record_count

(***************************************************************************)
(* Malformed features, the directory write, and the history of a station.  *)
(***************************************************************************)
\* C16: a feature whose water_level is present and no number does not end
\* the cycle: the fetch does not raise on it, so a cycle is only ever ended
\* by a call of the spreadsheet
MalformedFeatureNotFatal == pc = "except" => raised_at \in StoreCalls

\* C17: while Master_Locations held a directory at the start of the cycle,
\* it holds in every state, between the calls of the reconciliation and
\* after a call that raised, either that whole directory or the whole
\* directory of the batch
MasterReplacedAtomically ==
    Len(MasterOf(snap)) >= 2 =>
        \/ MasterOf(sheets) = MasterOf(snap)
        \/ data # <<>> /\ MasterOf(sheets) = MasterRows(SortGroups(data))

\* the instant a DateTime cell stands for, in milliseconds; "N/A" is 0
ObservedAt(time) ==
    IF time = NA THEN 0
    ELSE 1000 * ( ((time[12] - 48) * 10 + (time[13] - 48)) * 3600
                + ((time[15] - 48) * 10 + (time[16] - 48)) * 60
                + ((time[18] - 48) * 10 + (time[19] - 48)) )

\* C18: the rows about to be appended to a station's history are in
\* non-decreasing order of their instant, "N/A" counting as instant 0
NewRowsInObservedOrder ==
    pc = "st_append" =>
        \A i, j \in 1..Len(rows_to_add) :
            i < j => ObservedAt(rows_to_add[i][1]) <= ObservedAt(rows_to_add[j][1])

\* C19: after a reconciliation that returned, no two stations of the batch
\* share a history worksheet, and every reading of the batch is in the
\* history of its station unless its DateTime was there when the cycle began
StationsKeepTheirOwnHistory ==
    pc = "returned" =>
        /\ \A i, j \in 1..Len(data) :
              i # j => SheetTitle(data[i].name) # SheetTitle(data[j].name)
        /\ \A j \in 1..Len(data) : \A k \in 1..Len(data[j].records) :
              LET t == SheetTitle(data[j].name)
                  rec == data[j].records[k]
              IN  \/ t \in DOMAIN snap /\ rec.time \in ColValues(snap[t])
                  \/ t \in DOMAIN sheets /\ HistoryRow(rec) \in Range(sheets[t])

\* C20: whether the read of the DateTime column answered or raised, no row
\* about to be appended to the history of a station has a DateTime that this
\* history held when the cycle began (the station's key is short enough to
\* be the title of its worksheet, so the worksheet is its own)
ReadFailureAppendsNothingTwice ==
    (pc = "st_append" /\ Len(data[idx].name) <= 30
                      /\ SheetTitle(data[idx].name) \in DOMAIN snap) =>
        \A i \in 1..Len(rows_to_add) :
            rows_to_add[i][1] \notin ColValues(snap[SheetTitle(data[idx].name)])

=============================================================================
